---- MODULE Spec2Model ----
(***************************************************************************)
(* Model of offer_curation.ts: the offer-grading pipeline.                 *)
(*                                                                         *)
(*   - a JavaScript string is a sequence of atoms (chunks of characters);  *)
(*     trim() strips whitespace atoms, startsWith() looks at the first     *)
(*     atom, localeCompare() is lexicographic over the atoms' collation    *)
(*     rank;                                                               *)
(*   - a JavaScript number is an integer count of tenths (47 is 4.7);      *)
(*   - a JSON value is a tagged record [t |-> tag, v |-> payload];         *)
(*     undefined and null are the tags "undef" and "null".                 *)
(***************************************************************************)
EXTENDS Integers, Sequences, FiniteSets, TLC

VARIABLES
    dirReadable,   \* loadOffers: fs.promises.readdir succeeds
    apiKeyFound,   \* loadApiKey finds a credential
    files,         \* the JSON files of the offers directory, in sorted name order
    concurrency,   \* CONCURRENCY as parsed from the environment
    phase,         \* position of main()
    offers,        \* loadOffers' result: StructuredOffer list
    queue,         \* gradeOffers: pending offers (positions in offers)
    results,       \* gradeOffers: the shared GradingResult collection
    resultOffer,   \* history: resultOffer[i] is the offer results[i] was graded from
    wpc,           \* per worker: "unborn", "awaiting", "finished", "rejected"
    wcur,          \* per worker: the offer whose service call is in flight (0: none)
    popped,        \* history: <<worker, offer>> in the order of queue.shift()
    calls,         \* history: offers in the order client.responses.create was invoked
    csv,           \* the files written by writeResultsCsv, each a sequence of rows
    exitCode,      \* process.exitCode
    stalled,       \* the offer whose service call never settles (0: every call settles)
    gOffer,        \* reconciler run: the offer handed to gradeOffer
    gOutcome,      \* reconciler run: what client.responses.create did
    gRequest,      \* reconciler run: the image URLs attached to the request
    gResult,       \* reconciler run: what gradeOffer returned
    gpc            \* reconciler run: "start", "awaiting", "done"

vars == <<dirReadable, apiKeyFound, files, concurrency, phase, offers, queue, results,
          resultOffer, wpc, wcur, popped, calls, csv, exitCode, stalled,
          gOffer, gOutcome, gRequest, gResult, gpc>>

batchVars == <<dirReadable, apiKeyFound, files, concurrency, phase, offers, queue,
               results, resultOffer, wpc, wcur, popped, calls, csv, exitCode, stalled>>

graderVars == <<gOffer, gOutcome, gRequest, gResult, gpc>>

-----------------------------------------------------------------------------
(* Bounds of the model.                                                    *)

MaxFiles == 2        \* files in the offers directory
MaxConcurrency == 2  \* largest configured OFFER_GRADING_CONCURRENCY
MaxImages == 9       \* longest image list of an offer
MaxRawEntries == 2   \* top-level entries of a raw images field
MaxNested == 1       \* entries of a nested image list

-----------------------------------------------------------------------------
(* JSON values and JavaScript coercions.                                   *)

Undef == [t |-> "undef"]
Null == [t |-> "null"]
Bool(b) == [t |-> "bool", v |-> b]
Num(n) == [t |-> "num", v |-> n]
Str(s) == [t |-> "str", v |-> s]
Arr(s) == [t |-> "arr", v |-> s]
Obj(o) == [t |-> "obj", v |-> o]
NaN == [t |-> "nan"]

IsNullish(x) == x.t \in {"undef", "null"}

Min(a, b) == IF a <= b THEN a ELSE b
Max(a, b) == IF a >= b THEN a ELSE b

\* Math.trunc on a number held in tenths; the result is a whole number.
MathTrunc(n) == IF n >= 0 THEN n \div 10 ELSE -((-n) \div 10)

Whitespace == {" "}

RECURSIVE TrimStart(_)
TrimStart(s) ==
    IF s # <<>> /\ Head(s) \in Whitespace THEN TrimStart(Tail(s)) ELSE s

RECURSIVE TrimEnd(_)
TrimEnd(s) ==
    IF s # <<>> /\ s[Len(s)] \in Whitespace
    THEN TrimEnd(SubSeq(s, 1, Len(s) - 1))
    ELSE s

\* String.prototype.trim
Trim(s) == TrimEnd(TrimStart(s))

\* String.prototype.startsWith for a one-atom prefix
StartsWith(s, prefix) == s # <<>> /\ Head(s) = prefix

\* Numeric literals: the atom and the number (in tenths) it denotes.
NumLit ==
    [a \in {"-3", "0", "1", "2", "2.5", "3", "4.7", "5", "7", "9", "10", "11"} |->
        CASE a = "-3" -> -30
          [] a = "0" -> 0
          [] a = "1" -> 10
          [] a = "2" -> 20
          [] a = "2.5" -> 25
          [] a = "3" -> 30
          [] a = "4.7" -> 47
          [] a = "5" -> 50
          [] a = "7" -> 70
          [] a = "9" -> 90
          [] a = "10" -> 100
          [] a = "11" -> 110]

\* String(n) for a number
NumToString(n) ==
    IF \E a \in DOMAIN NumLit : NumLit[a] = n
    THEN <<CHOOSE a \in DOMAIN NumLit : NumLit[a] = n>>
    ELSE <<"<number>">>

\* Number(s) for a string: surrounding whitespace ignored, '' is 0, anything that
\* is not one numeric literal is NaN.
StringToNumber(s) ==
    LET t == Trim(s) IN
    IF t = <<>> THEN Num(0)
    ELSE IF Len(t) = 1 /\ t[1] \in DOMAIN NumLit THEN Num(NumLit[t[1]])
    ELSE NaN

\* Number.parseInt(s, 10): the integer prefix of the string, NaN without one.
ParseInt(s) ==
    LET t == TrimStart(s) IN
    IF t # <<>> /\ t[1] \in DOMAIN NumLit THEN Num(10 * MathTrunc(NumLit[t[1]]))
    ELSE NaN

RECURSIVE JoinWith(_, _)
\* Array.prototype.join on a sequence of strings
JoinWith(parts, sep) ==
    IF parts = <<>> THEN <<>>
    ELSE IF Len(parts) = 1 THEN parts[1]
    ELSE parts[1] \o sep \o JoinWith(Tail(parts), sep)

ObjectKeys == <<"score", "reason", "categories", "target_audiences",
                "hero_image_index", "hero_image_url", "hero_image_reason">>

RECURSIVE ToStr(_)
\* String(x)
ToStr(x) ==
    CASE x.t = "undef" -> <<"undefined">>
      [] x.t = "null" -> <<"null">>
      [] x.t = "bool" -> IF x.v THEN <<"true">> ELSE <<"false">>
      [] x.t = "num" -> NumToString(x.v)
      [] x.t = "nan" -> <<"NaN">>
      [] x.t = "str" -> x.v
      [] x.t = "arr" ->
            JoinWith([i \in 1..Len(x.v) |->
                        IF IsNullish(x.v[i]) THEN <<>> ELSE ToStr(x.v[i])], <<",">>)
      [] x.t = "obj" -> <<"[object Object]">>

RECURSIVE JsonStringify(_)
\* JSON.stringify(x) for a value that came out of JSON.parse
JsonStringify(x) ==
    CASE x.t = "null" -> <<"null">>
      [] x.t = "bool" -> IF x.v THEN <<"true">> ELSE <<"false">>
      [] x.t = "num" -> NumToString(x.v)
      [] x.t = "str" -> <<"\"">> \o x.v \o <<"\"">>
      [] x.t = "arr" ->
            <<"[">> \o JoinWith([i \in 1..Len(x.v) |-> JsonStringify(x.v[i])], <<",">>)
                    \o <<"]">>
      [] x.t = "obj" ->
            LET present == SelectSeq(ObjectKeys,
                                     LAMBDA k : k \in DOMAIN x.v /\ x.v[k].t # "undef")
            IN <<"{">> \o JoinWith([i \in 1..Len(present) |->
                                      <<"\"", present[i], "\"", ":">>
                                         \o JsonStringify(x.v[present[i]])], <<",">>)
                       \o <<"}">>

\* Number(x)
ToNumber(x) ==
    CASE x.t = "undef" -> NaN
      [] x.t = "null" -> Num(0)
      [] x.t = "bool" -> IF x.v THEN Num(10) ELSE Num(0)
      [] x.t = "num" -> x
      [] x.t = "nan" -> NaN
      [] x.t = "str" -> StringToNumber(x.v)
      [] x.t = "arr" -> StringToNumber(ToStr(x))
      [] x.t = "obj" -> NaN

\* Boolean(x)
Truthy(x) ==
    CASE x.t = "undef" -> FALSE
      [] x.t = "null" -> FALSE
      [] x.t = "bool" -> x.v
      [] x.t = "num" -> x.v # 0
      [] x.t = "nan" -> FALSE
      [] x.t = "str" -> x.v # <<>>
      [] x.t = "arr" -> TRUE
      [] x.t = "obj" -> TRUE

\* x.key for a value that is not null or undefined
Prop(x, key) == IF x.t = "obj" /\ key \in DOMAIN x.v THEN x.v[key] ELSE Undef

-----------------------------------------------------------------------------
(* Prompt preparation and the request's image attachments.                 *)

MAX_IMAGES_TO_REVIEW == 8

\* Array.prototype.slice(0, n)
SliceTo(s, n) == SubSeq(s, 1, Min(n, Len(s)))

\* buildOfferPrompt: the image details numbered [1], [2], ... in the prompt text
PromptImageDetails(offer) == SliceTo(offer.image_details, MAX_IMAGES_TO_REVIEW)

\* gradeOffer: the image URLs attached to the request
ImagePayload(offer) ==
    LET shown == SliceTo(offer.image_details, MAX_IMAGES_TO_REVIEW)
        urls == [i \in 1..Len(shown) |-> shown[i].url]
    IN SelectSeq(urls, Truthy)

-----------------------------------------------------------------------------
(* Response parsing.                                                        *)
(*                                                                         *)
(* A reply text is [raw, whole, braces]: raw is the text collectResponseText*)
(* returns (trimmed), whole is what JSON.parse(raw) gives, braces is what  *)
(* JSON.parse gives on the first-{-to-last-} substring of raw.              *)

SyntaxError == [t |-> "syntaxerror"]
NoMatch == [t |-> "nomatch"]

EmptyObject == [k \in {ObjectKeys[i] : i \in 1..Len(ObjectKeys)} |-> Undef]

parseJsonResponse(text) ==
    IF text.raw = <<>>
    THEN Obj([EmptyObject EXCEPT !.score = Null,
                                 !.reason = Str(<<"Empty response from model.">>)])
    ELSE IF text.whole # SyntaxError THEN text.whole
    ELSE IF text.braces \notin {SyntaxError, NoMatch} THEN text.braces
    ELSE Obj([EmptyObject EXCEPT !.score = Null,
                                 !.reason = Str(<<"Failed to parse JSON: ">> \o text.raw)])

normaliseStringList(value) ==
    IF value.t = "arr"
    THEN LET strings == [i \in 1..Len(value.v) |->
                            IF IsNullish(value.v[i]) THEN <<>> ELSE ToStr(value.v[i])]
         IN SelectSeq(strings, LAMBDA s : s # <<>>)
    ELSE IF IsNullish(value) \/ value = Str(<<>>) THEN <<>>
    ELSE <<ToStr(value)>>

-----------------------------------------------------------------------------
(* gradeOffer: the reconciliation of the parsed reply.                     *)

\* lines 592-599: the index the service returned, as a whole number or null
CoerceHeroImageIndex(raw) ==
    IF raw.t = "num" THEN Num(10 * MathTrunc(raw.v))
    ELSE IF raw.t = "str" /\ Trim(raw.v) # <<>>
    THEN LET numeric == ParseInt(Trim(raw.v))
         IN IF numeric.t = "num" THEN numeric ELSE Null
    ELSE Null

\* The URL taken as the service wrote it, without trim()
CoerceHeroImageUrl_Untrimmed(raw) ==
    LET url == IF Truthy(raw) THEN Str(ToStr(raw)) ELSE Null
    IN IF url = Str(<<>>) THEN Null ELSE url

\* lines 601-604: the URL the service returned, trimmed, '' as null
CoerceHeroImageUrl(raw) ==
    LET url == IF Truthy(raw) THEN Str(Trim(ToStr(raw))) ELSE Null
    IN IF url = Str(<<>>) THEN Null ELSE url

\* candidateImages[i - 1]?.url for a whole number i held in tenths
UrlAt(candidateImages, idx) ==
    LET i == idx.v \div 10
    IN IF i \in 1..Len(candidateImages) THEN candidateImages[i].url ELSE Undef

\* The range check without its lower bound's first valid position (accepts 0)
IndexInRange_FromZero(candidateImages, idx) ==
    idx.v >= 0 /\ idx.v <= 10 * Len(candidateImages)

\* lines 606-613
IndexInRange(candidateImages, idx) ==
    idx.v >= 10 /\ idx.v <= 10 * Len(candidateImages)

\* lines 615-617
DiscardAttachmentUrl(url) ==
    IF Truthy(url) /\ StartsWith(url.v, "attachment://") THEN Null ELSE url

\* Array.prototype.findIndex, 1-based; 0 when nothing matches
FindIndex(candidateImages, url) ==
    LET hits == {i \in 1..Len(candidateImages) : candidateImages[i].url = url}
    IN IF hits = {} THEN 0 ELSE CHOOSE i \in hits : \A j \in hits : i <= j

\* The URL lookup run only when the service gave no index at all: here, never
IndexFromUrl_Never(candidateImages, url, idx) == idx

\* lines 626-631
IndexFromUrl(candidateImages, url, idx) ==
    IF Truthy(url) /\ idx = Null
    THEN LET pos == FindIndex(candidateImages, url)
         IN IF pos >= 1 THEN Num(10 * pos) ELSE idx
    ELSE idx

\* lines 592-631: <<hero_image_index, hero_image_url>>
ReconcileHeroImage(candidateImages, parsed) ==
    LET index0 == CoerceHeroImageIndex(Prop(parsed, "hero_image_index"))
        url0 == CoerceHeroImageUrl(Prop(parsed, "hero_image_url"))
        inRange == index0 # Null /\ IndexInRange(candidateImages, index0)
        index1 == IF inRange THEN index0 ELSE Null
        url1 == IF inRange
                THEN LET candidate == UrlAt(candidateImages, index0)
                     IN IF Truthy(candidate) THEN candidate ELSE url0
                ELSE url0
        url2 == DiscardAttachmentUrl(url1)
        url3 == IF ~Truthy(url2) /\ index1 # Null
                THEN LET candidate == UrlAt(candidateImages, index1)
                     IN IF Truthy(candidate) THEN candidate ELSE url2
                ELSE url2
        index2 == IndexFromUrl(candidateImages, url3, index1)
    IN <<index2, url3>>

\* lines 640-645
NormaliseScore(scoreRaw) ==
    LET numericScore == ToNumber(scoreRaw)
    IN IF numericScore.t # "nan" THEN Num(Min(50, Max(0, numericScore.v))) ELSE Null

\* lines 647-648
NormaliseReason(parsed) ==
    LET reasonValue == IF ~IsNullish(Prop(parsed, "reason")) THEN Prop(parsed, "reason")
                       ELSE parsed
    IN IF reasonValue.t = "str" THEN reasonValue.v ELSE JsonStringify(reasonValue)

\* lines 633-638
NormaliseHeroImageReason(value) ==
    IF IsNullish(value) THEN <<>>
    ELSE IF value.t = "str" THEN Trim(value.v)
    ELSE JsonStringify(value)

\* offer.activity_id ?? null
ActivityIdOrNull(offer) == IF IsNullish(offer.activity_id) THEN Null ELSE offer.activity_id

\* lines 574-587: the result of a failed service call
FailedCallResult(offer, error) ==
    [activity_id |-> ActivityIdOrNull(offer),
     score |-> Null,
     reason |-> <<"Model call failed: ">> \o JsonStringify(error),
     categories |-> <<>>,
     target_audiences |-> <<>>,
     hero_image_index |-> Null,
     hero_image_url |-> Null,
     hero_image_reason |-> <<>>,
     response_id |-> Null]

\* lines 589-660: the result built from the parsed reply
ReconciledResult(offer, parsed, responseId) ==
    LET hero == ReconcileHeroImage(offer.image_details, parsed)
    IN [activity_id |-> ActivityIdOrNull(offer),
        score |-> NormaliseScore(Prop(parsed, "score")),
        reason |-> NormaliseReason(parsed),
        categories |-> normaliseStringList(Prop(parsed, "categories")),
        target_audiences |-> normaliseStringList(Prop(parsed, "target_audiences")),
        hero_image_index |-> hero[1],
        hero_image_url |-> hero[2],
        hero_image_reason |-> NormaliseHeroImageReason(Prop(parsed, "hero_image_reason")),
        response_id |-> responseId]

Returned(result) == [threw |-> FALSE, value |-> result]
Thrown == [threw |-> TRUE]

\* gradeOffer. An outcome is what client.responses.create did: it threw
\* [kind |-> "error", error] or it returned [kind |-> "response", id, text].
\* getClient() throws without a credential; reading a property of a reply that
\* parsed to null throws a TypeError; both leave the try block's reach.
gradeOffer(offer, outcome, keyFound) ==
    IF ~keyFound THEN Thrown
    ELSE IF outcome.kind = "error" THEN Returned(FailedCallResult(offer, outcome.error))
    ELSE LET responseId == IF outcome.id.t = "str" THEN outcome.id ELSE Null
             parsed == parseJsonResponse(outcome.text)
         IN IF IsNullish(parsed) THEN Thrown
            ELSE Returned(ReconciledResult(offer, parsed, responseId))

-----------------------------------------------------------------------------
(* Loading and structuring the raw records.                                *)

\* a || b
OrElse(a, b) == IF Truthy(a) THEN a ELSE b

\* typeof x.image_url_host === 'string' ? x.image_url_host : undefined
HostUrl(entry) ==
    IF Prop(entry, "image_url_host").t = "str" THEN Prop(entry, "image_url_host") ELSE Undef

\* lines 197-218: the details of one entry's nested image list
NestedDetails(entry) ==
    LET nested == Prop(entry, "images")
        items == IF nested.t = "arr" THEN nested.v ELSE <<>>
        usable == SelectSeq(items, LAMBDA item : item.t = "obj" /\ Truthy(HostUrl(item)))
    IN [i \in 1..Len(usable) |-> [url |-> HostUrl(usable[i]), source |-> "nested"]]

\* lines 183-218: the details one top-level entry contributes
EntryDetails(entry) ==
    IF entry.t # "obj" THEN <<>>
    ELSE (IF Truthy(HostUrl(entry))
          THEN <<[url |-> HostUrl(entry), source |-> "primary"]>>
          ELSE <<>>) \o NestedDetails(entry)

RECURSIVE CandidateDetails(_)
\* lines 179-219
CandidateDetails(entries) ==
    IF entries = <<>> THEN <<>>
    ELSE EntryDetails(Head(entries)) \o CandidateDetails(Tail(entries))

\* The de-duplication left out: every detail with a URL is kept
UniqueByUrl_KeepAll(details) == SelectSeq(details, LAMBDA d : Truthy(d.url))

\* lines 221-229: keep the first detail of every URL
UniqueByUrl(details) ==
    LET keep(i) == Truthy(details[i].url)
                   /\ \A j \in 1..(i - 1) : details[j].url # details[i].url
        kept == SelectSeq([i \in 1..Len(details) |-> i], keep)
    IN [k \in 1..Len(kept) |-> details[kept[k]]]

extractImageDetails(images) ==
    IF images.t # "arr" THEN <<>> ELSE UniqueByUrl(CandidateDetails(images.v))

\* lines 400-405
ResolveStatus(activity) ==
    LET categoryInfo == OrElse(Prop(activity, "category_info"), Obj([curation_status |-> Undef]))
    IN OrElse(OrElse(OrElse(Prop(activity, "status"), Prop(activity, "curation_status")),
                     Prop(categoryInfo, "curation_status")),
              Null)

structureActivity(activity) ==
    LET imageDetails == extractImageDetails(Prop(activity, "images"))
        urls == [i \in 1..Len(imageDetails) |-> imageDetails[i].url]
    IN [activity_id |-> Prop(activity, "activity_id"),
        status |-> ResolveStatus(activity),
        images |-> SelectSeq(urls, Truthy),
        image_details |-> imageDetails]

RECURSIVE loadOffers(_)
\* lines 156-170: a file is [parses, payload]; files that do not parse or whose
\* payload has no activity are skipped
loadOffers(jsonFiles) ==
    IF jsonFiles = <<>> THEN <<>>
    ELSE LET file == Head(jsonFiles)
             activity == IF file.parses /\ ~IsNullish(file.payload)
                         THEN Prop(file.payload, "activity") ELSE Undef
         IN (IF file.parses /\ Truthy(activity) THEN <<structureActivity(activity)>> ELSE <<>>)
            \o loadOffers(Tail(jsonFiles))

-----------------------------------------------------------------------------
(* The curated filter.                                                      *)

UpperOf ==
    [a \in {"a", "c", "d", "e", "i", "r", "t", "u", "v"} |->
        CASE a = "a" -> "A" [] a = "c" -> "C" [] a = "d" -> "D" [] a = "e" -> "E"
          [] a = "i" -> "I" [] a = "r" -> "R" [] a = "t" -> "T" [] a = "u" -> "U"
          [] a = "v" -> "V"]

\* String.prototype.toUpperCase
ToUpperCase(s) == [i \in 1..Len(s) |-> IF s[i] \in DOMAIN UpperOf THEN UpperOf[s[i]] ELSE s[i]]

CURATED == <<"C", "U", "R", "A", "T", "E", "D">>

\* The filter without the upper-casing
RequiresGrading_CaseSensitive(offer) ==
    ToStr(OrElse(offer.status, Str(<<>>))) # CURATED

\* lines 759-762: the filter's predicate
RequiresGrading(offer) ==
    ToUpperCase(ToStr(OrElse(offer.status, Str(<<>>)))) # CURATED

\* main: the positions (in offers) of offersToGrade
OffersToGrade(loaded) == SelectSeq([i \in 1..Len(loaded) |-> i],
                                   LAMBDA i : RequiresGrading(loaded[i]))

-----------------------------------------------------------------------------
(* The final sort.                                                          *)

\* The atoms of identifiers and reasons, in collation order.
Collation ==
    <<" ", "\"", ",", ":", "[", "]", "{", "}", "-3", "0", "1", "10", "11", "2", "2.5", "3",
      "4.7", "5", "7", "9", "Empty response from model.", "Failed to parse JSON: ",
      "Model call failed: ", "null", "ok", "reason", "score", "sorry", "timeout">>

Rank(atom) ==
    IF \E i \in 1..Len(Collation) : Collation[i] = atom
    THEN CHOOSE i \in 1..Len(Collation) : Collation[i] = atom
    ELSE Len(Collation) + 1

RECURSIVE localeCompare(_, _)
\* String.prototype.localeCompare: negative, zero or positive
localeCompare(a, b) ==
    IF a = <<>> /\ b = <<>> THEN 0
    ELSE IF a = <<>> THEN -1
    ELSE IF b = <<>> THEN 1
    ELSE IF Rank(Head(a)) < Rank(Head(b)) THEN -1
    ELSE IF Rank(Head(a)) > Rank(Head(b)) THEN 1
    ELSE localeCompare(Tail(a), Tail(b))

\* String(x ?? '')
StringOrEmpty(x) == IF IsNullish(x) THEN <<>> ELSE ToStr(x)

\* lines 687-694: the comparator
CompareResults(a, b) ==
    LET idA == StringOrEmpty(a.activity_id)
        idB == StringOrEmpty(b.activity_id)
    IN IF idA = idB THEN localeCompare(a.reason, b.reason) ELSE localeCompare(idA, idB)

\* Array.prototype.sort is stable: the permutation that orders rs by the comparator
\* and keeps elements that compare equal in their original order.
SortPermutation(rs) ==
    LET n == Len(rs)
    IN CHOOSE p \in [1..n -> 1..n] :
          /\ \A i, j \in 1..n : i # j => p[i] # p[j]
          /\ \A i, j \in 1..n :
                i < j => \/ CompareResults(rs[p[i]], rs[p[j]]) < 0
                         \/ (CompareResults(rs[p[i]], rs[p[j]]) = 0 /\ p[i] < p[j])

Permute(s, p) == [i \in 1..Len(s) |-> s[p[i]]]

-----------------------------------------------------------------------------
(* CSV export.                                                              *)

CSV_COLUMNS ==
    <<<<"activity_id">>, <<"activity_url">>, <<"hero_image_index">>, <<"hero_image_url">>,
      <<"hero_image_reason">>, <<"categories">>, <<"target_audiences">>, <<"score">>,
      <<"reason">>, <<"log_url">>>>

RECURSIVE DoubleQuotes(_)
\* stringValue.replace(/"/g, '""')
DoubleQuotes(s) ==
    IF s = <<>> THEN <<>>
    ELSE (IF Head(s) = "\"" THEN <<"\"", "\"">> ELSE <<Head(s)>>) \o DoubleQuotes(Tail(s))

escapeCsvValue(value) ==
    LET stringValue == IF IsNullish(value) THEN <<>> ELSE ToStr(value)
    IN IF \E i \in 1..Len(stringValue) : stringValue[i] \in {"\"", ",", "\n"}
       THEN <<"\"">> \o DoubleQuotes(stringValue) \o <<"\"">>
       ELSE stringValue

buildCsvRow(result) ==
    LET activityId == StringOrEmpty(result.activity_id)
        activityUrl == IF activityId # <<>>
                       THEN <<"https://www.klook.com/en-AU/activity/">> \o activityId
                       ELSE <<>>
        logUrl == IF Truthy(result.response_id)
                  THEN <<"https://platform.openai.com/logs/">> \o ToStr(result.response_id)
                  ELSE <<>>
        ordered == <<Str(activityId), Str(activityUrl), result.hero_image_index,
                     result.hero_image_url, Str(result.hero_image_reason),
                     Str(JoinWith(result.categories, <<"; ">>)),
                     Str(JoinWith(result.target_audiences, <<"; ">>)),
                     result.score, Str(result.reason), Str(logUrl)>>
    IN JoinWith([i \in 1..Len(ordered) |-> escapeCsvValue(ordered[i])], <<",">>)

\* writeResultsCsv: the lines of the file
CsvLines(rs) == <<JoinWith(CSV_COLUMNS, <<",">>)>> \o [i \in 1..Len(rs) |-> buildCsvRow(rs[i])]

-----------------------------------------------------------------------------
(* The inputs the model draws from.                                        *)

HttpsUrl(name) == <<"https://", name>>
AttachmentUrl(name) == <<"attachment://", name>>

\* A raw images field of n top-level entries, each with a host URL of its own;
\* the entry at position att (if any) carries an attachment-scheme URL.
RawImages(n, att) ==
    Arr([i \in 1..n |->
            Obj([image_url_host |-> Str(IF i = att THEN AttachmentUrl(ToString(i))
                                        ELSE HttpsUrl(ToString(i))),
                 images |-> Undef])])

RawActivity(id, status, curation, categoryCuration, images) ==
    Obj([activity_id |-> id,
         status |-> status,
         curation_status |-> curation,
         category_info |-> IF categoryCuration = Undef THEN Undef
                           ELSE Obj([curation_status |-> categoryCuration]),
         images |-> images])

ParsedObject(score, reason, index, url) ==
    Obj([EmptyObject EXCEPT !.score = score, !.reason = reason,
                            !.hero_image_index = index, !.hero_image_url = url])

\* A reply whose whole text is the JSON form of value
JsonText(value) == [raw |-> JsonStringify(value), whole |-> value, braces |-> NoMatch]
\* A reply that wraps the JSON form of an object in prose
ProseText(object) ==
    [raw |-> <<"Here you go: ">> \o JsonStringify(object), whole |-> SyntaxError,
     braces |-> object]
EmptyText == [raw |-> <<>>, whole |-> SyntaxError, braces |-> NoMatch]
GarbageText == [raw |-> <<"sorry">>, whole |-> SyntaxError, braces |-> NoMatch]
BrokenBracesText == [raw |-> <<"{", "sorry", "}">>, whole |-> SyntaxError, braces |-> SyntaxError]

Response(id, text) == [kind |-> "response", id |-> id, text |-> text]
TransportError == [kind |-> "error", error |-> Str(<<"timeout">>)]
ResponseId == Str(<<"resp_1">>)

-----------------------------------------------------------------------------
(* The batch run: main, gradeOffers and its workers.                       *)

FilePool ==
    LET one == RawImages(1, 0) IN
    { [parses |-> FALSE, payload |-> Undef],
      [parses |-> TRUE, payload |-> Obj([version |-> Num(10)])],
      [parses |-> TRUE, payload |-> Obj([activity |-> RawActivity(Undef, Undef, Undef, Undef, one)])],
      [parses |-> TRUE, payload |-> Obj([activity |-> RawActivity(Num(70), Undef, Undef, Undef, one)])],
      [parses |-> TRUE, payload |-> Obj([activity |->
            RawActivity(Num(70), Str(<<"A", "c", "t", "i", "v", "e">>),
                        Str(<<"c", "u", "r", "a", "t", "e", "d">>), Undef, one)])],
      [parses |-> TRUE, payload |-> Obj([activity |->
            RawActivity(Undef, Str(<<"c", "u", "r", "a", "t", "e", "d", " ">>), Undef, Undef, one)])],
      [parses |-> TRUE, payload |-> Obj([activity |->
            RawActivity(Num(70), Str(<<"c", "u", "r", "a", "t", "e", "d">>), Undef, Undef, one)])],
      [parses |-> TRUE, payload |-> Obj([activity |->
            RawActivity(Undef, Undef, Str(CURATED), Undef, one)])],
      [parses |-> TRUE, payload |-> Obj([activity |->
            RawActivity(Num(70), Str(<<>>), Undef,
                        Str(<<"C", "u", "R", "a", "T", "e", "D">>), one)])] }

FileLists == UNION {[1..n -> FilePool] : n \in 0..MaxFiles}

\* CONCURRENCY: what Number.parseInt made of the environment value
ConcurrencyValues == {NaN} \cup {Num(10 * k) : k \in -1..MaxConcurrency}

\* What a service call of the batch may do
BatchOutcomes ==
    { TransportError,
      Response(ResponseId, EmptyText),
      Response(ResponseId, GarbageText),
      Response(ResponseId, JsonText(Null)),
      Response(ResponseId, JsonText(ParsedObject(Num(30), Str(<<"ok">>), Num(10), Undef))),
      Response(ResponseId, JsonText(ParsedObject(Num(40), Str(<<"ok">>), Undef, Undef))) }

NoOffer == [activity_id |-> Undef, status |-> Null, images |-> <<>>, image_details |-> <<>>]

GraderIdle ==
    /\ gOffer = NoOffer
    /\ gOutcome = TransportError
    /\ gRequest = <<>>
    /\ gResult = Thrown
    /\ gpc = "off"

RunInputs ==
    /\ dirReadable \in BOOLEAN
    /\ apiKeyFound \in BOOLEAN
    /\ files \in IF dirReadable THEN FileLists ELSE {<<>>}
    /\ concurrency \in ConcurrencyValues
    /\ phase = "start"
    /\ offers = <<>>
    /\ queue = <<>>
    /\ results = <<>>
    /\ resultOffer = <<>>
    /\ wpc = <<>>
    /\ wcur = <<>>
    /\ popped = <<>>
    /\ calls = <<>>
    /\ csv = <<>>
    /\ exitCode = 0
    /\ GraderIdle

Init ==
    /\ RunInputs
    /\ stalled = 0

\* main, line 756: loadOffers resolves or rejects
LoadOffers ==
    /\ phase = "start"
    /\ IF dirReadable
       THEN /\ offers' = loadOffers(files)
            /\ phase' = "loaded"
            /\ UNCHANGED exitCode
       ELSE /\ phase' = "fatal"
            /\ exitCode' = 1
            /\ UNCHANGED offers
    /\ UNCHANGED <<dirReadable, apiKeyFound, files, concurrency, queue, results, resultOffer,
                   wpc, wcur, popped, calls, csv>>
    /\ UNCHANGED <<stalled, graderVars>>

\* One worker more than configured
Limiter_PlusOne(configured) ==
    Max(1, IF configured.t = "num" THEN MathTrunc(configured.v) ELSE 1) + 1

\* gradeOffers, line 668
Limiter(configured) ==
    Max(1, IF configured.t = "num" THEN MathTrunc(configured.v) ELSE 1)

\* main, lines 759-770, and gradeOffers up to its await: the filter, then every
\* worker runs to its first await: it shifts an offer and starts gradeOffer on it,
\* or finds the queue empty and returns.
StartGrading ==
    /\ phase = "loaded"
    /\ LET toGrade == OffersToGrade(offers)
           limiter == Limiter(concurrency)
           busy == Min(limiter, Len(toGrade))
       IN IF toGrade = <<>>
          THEN /\ phase' = "returned"
               /\ UNCHANGED <<queue, wpc, wcur, popped, calls, exitCode>>
          ELSE /\ queue' = SubSeq(toGrade, busy + 1, Len(toGrade))
               /\ popped' = [w \in 1..busy |-> <<w, toGrade[w]>>]
               /\ wcur' = [w \in 1..limiter |-> IF w <= busy /\ apiKeyFound THEN toGrade[w] ELSE 0]
               /\ IF apiKeyFound
                  THEN /\ wpc' = [w \in 1..limiter |-> IF w <= busy THEN "awaiting" ELSE "finished"]
                       /\ calls' = [w \in 1..busy |-> toGrade[w]]
                       /\ phase' = "running"
                       /\ UNCHANGED exitCode
                  ELSE /\ wpc' = [w \in 1..limiter |-> IF w <= busy THEN "rejected" ELSE "finished"]
                       /\ phase' = "fatal"
                       /\ exitCode' = 1
                       /\ UNCHANGED calls
    /\ UNCHANGED <<dirReadable, apiKeyFound, files, concurrency, offers, results, resultOffer, csv>>
    /\ UNCHANGED <<stalled, graderVars>>

\* lines 672-682: worker w's service call settles; gradeOffer finishes; the worker
\* pushes the result and shifts its next offer, or returns on an empty queue. When
\* gradeOffer throws the worker rejects, and with it Promise.all, gradeOffers and
\* main (line 775); the other workers run on. The call for the stalled offer never
\* settles.
ServiceReturns(w) ==
    /\ w \in DOMAIN wpc
    /\ wpc[w] = "awaiting"
    /\ wcur[w] # stalled
    /\ \E outcome \in BatchOutcomes :
          LET graded == gradeOffer(offers[wcur[w]], outcome, apiKeyFound)
          IN IF graded.threw
             THEN /\ wpc' = [wpc EXCEPT ![w] = "rejected"]
                  /\ wcur' = [wcur EXCEPT ![w] = 0]
                  /\ phase' = IF phase = "running" THEN "fatal" ELSE phase
                  /\ exitCode' = 1
                  /\ UNCHANGED <<queue, results, resultOffer, popped, calls>>
             ELSE /\ results' = Append(results, graded.value)
                  /\ resultOffer' = Append(resultOffer, wcur[w])
                  /\ IF queue # <<>>
                     THEN /\ queue' = Tail(queue)
                          /\ popped' = Append(popped, <<w, Head(queue)>>)
                          /\ calls' = Append(calls, Head(queue))
                          /\ wcur' = [wcur EXCEPT ![w] = Head(queue)]
                          /\ UNCHANGED wpc
                     ELSE /\ wpc' = [wpc EXCEPT ![w] = "finished"]
                          /\ wcur' = [wcur EXCEPT ![w] = 0]
                          /\ UNCHANGED <<queue, popped, calls>>
                  /\ UNCHANGED <<phase, exitCode>>
    /\ UNCHANGED <<dirReadable, apiKeyFound, files, concurrency, offers, csv>>
    /\ UNCHANGED <<stalled, graderVars>>

\* lines 685-696 and 771: every worker has returned; the results are sorted and
\* written.
FinishBatch ==
    /\ phase = "running"
    /\ \A w \in DOMAIN wpc : wpc[w] = "finished"
    /\ LET p == SortPermutation(results)
       IN /\ results' = Permute(results, p)
          /\ resultOffer' = Permute(resultOffer, p)
          /\ csv' = Append(csv, CsvLines(Permute(results, p)))
    /\ phase' = "done"
    /\ UNCHANGED <<dirReadable, apiKeyFound, files, concurrency, offers, queue, wpc, wcur,
                   popped, calls, exitCode>>
    /\ UNCHANGED <<stalled, graderVars>>

Next ==
    \/ LoadOffers
    \/ StartGrading
    \/ \E w \in 1..(MaxConcurrency + 1) : ServiceReturns(w)
    \/ FinishBatch

Spec == Init /\ [][Next]_vars

-----------------------------------------------------------------------------
(* One gradeOffer run over the reconciler's input space.                    *)

\* Offers with 0..MaxImages images, one of them possibly under the attachment scheme
GraderOffers ==
    { structureActivity(RawActivity(Num(70), Undef, Undef, Undef, RawImages(n, att))) :
        n \in 0..MaxImages, att \in 0..1 }
    \cup { structureActivity(RawActivity(Num(70), Undef, Undef, Undef, RawImages(n, n))) :
             n \in 2..3 }

IndexValues ==
    {Num(10 * k) : k \in -1..(MaxImages + 1)}
    \cup {Undef, Null, Num(25), Str(<<>>), Str(<<" ">>), Str(<<"abc">>), Str(<<" ", "3", " ">>),
          Str(<<"2", "abc">>), Str(<<"9">>), Bool(TRUE)}

UrlValues ==
    {Undef, Null, Str(<<>>), Str(<<" ">>), Num(50),
     Str(HttpsUrl("1")), Str(<<" ">> \o HttpsUrl("2") \o <<" ">>), Str(HttpsUrl("9")),
     Str(HttpsUrl("elsewhere")), Str(AttachmentUrl("1")), Str(<<" ">> \o AttachmentUrl("file"))}

ScoreValues ==
    {Undef, Null, Bool(TRUE), Bool(FALSE), Str(<<>>), Str(<<"abc">>), Str(<<"4.7">>),
     Str(<<" ", "9">>), Arr(<<>>), Arr(<<Num(30)>>), Arr(<<Num(10), Num(20)>>),
     Obj(EmptyObject), Num(-30), Num(0), Num(47), Num(50), Num(90)}

ReasonValues == {Undef, Null, Str(<<"ok">>), Num(70)}

ListValues ==
    {Undef, Str(<<>>), Str(<<"Golf">>), Num(70),
     Arr(<<Str(<<"Golf">>), Null, Str(<<>>), Num(70)>>)}

HeroReplies ==
    {ParsedObject(Num(30), Str(<<"ok">>), index, url) : index \in IndexValues, url \in UrlValues}

ScoreReplies ==
    {ParsedObject(score, reason, Undef, Undef) : score \in ScoreValues, reason \in ReasonValues}

ListReplies ==
    {Obj([EmptyObject EXCEPT !.categories = list, !.target_audiences = list,
                             !.hero_image_reason = text]) :
        list \in ListValues, text \in {Undef, Str(<<" ", "ok", " ">>), Num(70)}}

GraderTexts ==
    {JsonText(object) : object \in HeroReplies \cup ScoreReplies \cup ListReplies}
    \cup {ProseText(ParsedObject(Num(30), Undef, Num(10), Undef))}
    \cup {JsonText(value) : value \in {Null, Num(30), Bool(TRUE), Str(<<"ok">>), Arr(<<>>)}}
    \cup {EmptyText, GarbageText, BrokenBracesText}

GraderOutcomes ==
    {TransportError}
    \cup {Response(ResponseId, text) : text \in GraderTexts}
    \cup {Response(Undef, text) : text \in {EmptyText, JsonText(ParsedObject(Num(30), Undef, Undef, Undef))}}

BatchIdle ==
    /\ dirReadable = TRUE
    /\ apiKeyFound = TRUE
    /\ files = <<>>
    /\ concurrency = Num(10)
    /\ phase = "off"
    /\ offers = <<>>
    /\ queue = <<>>
    /\ results = <<>>
    /\ resultOffer = <<>>
    /\ wpc = <<>>
    /\ wcur = <<>>
    /\ popped = <<>>
    /\ calls = <<>>
    /\ csv = <<>>
    /\ exitCode = 0
    /\ stalled = 0

InitGrader ==
    /\ BatchIdle
    /\ gOffer \in GraderOffers
    /\ gOutcome = TransportError
    /\ gRequest = <<>>
    /\ gResult = Thrown
    /\ gpc = "start"

\* gradeOffer, lines 539-569: the prompt is built and the request sent
GraderCall ==
    /\ gpc = "start"
    /\ gRequest' = ImagePayload(gOffer)
    /\ gpc' = "awaiting"
    /\ UNCHANGED <<gOffer, gOutcome, gResult>>
    /\ UNCHANGED batchVars

\* gradeOffer, lines 571-660: the call settles and the result is built
GraderReturn ==
    /\ gpc = "awaiting"
    /\ \E outcome \in GraderOutcomes :
          /\ gOutcome' = outcome
          /\ gResult' = gradeOffer(gOffer, outcome, apiKeyFound)
    /\ gpc' = "done"
    /\ UNCHANGED <<gOffer, gRequest>>
    /\ UNCHANGED batchVars

NextGrader == GraderCall \/ GraderReturn

SpecGrader == InitGrader /\ [][NextGrader]_vars

-----------------------------------------------------------------------------
(* Properties of one gradeOffer run (checked under SpecGrader).            *)

GraderDone == gpc = "done" /\ ~gResult.threw

\* The service replied with a JSON object: its fields as the service wrote them
ObjectReply == gOutcome.kind = "response" /\ gOutcome.text.whole.t = "obj"
ServiceField(key) == gOutcome.text.whole.v[key]

ImageCount == Len(gOffer.image_details)
OwnUrls == {gOffer.image_details[i].url : i \in 1..ImageCount}
PositionsOf(url) == {i \in 1..ImageCount : gOffer.image_details[i].url = url}

HeroIndexPresent == gResult.value.hero_image_index # Null

\* C1: if the result's hero_image_index is present it is a whole number in
\* 1..len(image_details) and hero_image_url is the URL of the image at that position,
\* whatever URL the service supplied.
C1_HeroIndexMatchesUrl ==
    (GraderDone /\ HeroIndexPresent) =>
        LET idx == gResult.value.hero_image_index
        IN /\ idx.t = "num"
           /\ idx.v \in {10 * i : i \in 1..ImageCount}
           /\ gResult.value.hero_image_url = gOffer.image_details[idx.v \div 10].url

\* C1 witness: the service gave index 3 and a URL that is not image 3's; the result
\* carries index 3 and image 3's URL.
C1_Witness ==
    /\ GraderDone /\ ObjectReply
    /\ ServiceField("hero_image_index") = Num(30)
    /\ ServiceField("hero_image_url") = Str(HttpsUrl("elsewhere"))
    /\ gResult.value.hero_image_index = Num(30)
    /\ gResult.value.hero_image_url = Str(HttpsUrl("3"))

\* The reply text is empty or not recoverable JSON
ParseFailed ==
    /\ gOutcome.kind = "response"
    /\ \/ gOutcome.text.raw = <<>>
       \/ gOutcome.text.whole = SyntaxError /\ gOutcome.text.braces \in {SyntaxError, NoMatch}

ParseFailureReasons ==
    {<<"Empty response from model.">>, <<"Failed to parse JSON: ">> \o gOutcome.text.raw}

\* C3: when the call succeeds but the text is empty or not recoverable JSON, the
\* result has an absent score, a reason stating the parse failure and the request
\* identifier of the call.
C3_ParseFailureResult ==
    (gpc = "done" /\ ParseFailed) =>
        /\ ~gResult.threw
        /\ gResult.value.score = Null
        /\ gResult.value.reason \in ParseFailureReasons
        /\ (gOutcome.id.t = "str" => gResult.value.response_id = gOutcome.id)

\* The value is a number, or a string holding one numeric literal
IsValidNumber(x) ==
    \/ x.t = "num"
    \/ x.t = "str" /\ Len(Trim(x.v)) = 1 /\ Trim(x.v)[1] \in DOMAIN NumLit

ValueOfNumber(x) == IF x.t = "num" THEN x.v ELSE NumLit[Trim(x.v)[1]]

Clamped(n) == IF n < 0 THEN 0 ELSE IF n > 50 THEN 50 ELSE n

\* C4: the result score is absent when the reply's score is not a valid number
\* (missing, null, boolean, empty or non-numeric string, list, object) and is the
\* value clamped to [0, 5] otherwise.
C4_ScoreNormalised ==
    (GraderDone /\ ObjectReply) =>
        LET scoreRaw == ServiceField("score")
        IN IF IsValidNumber(scoreRaw)
           THEN gResult.value.score = Num(Clamped(ValueOfNumber(scoreRaw)))
           ELSE gResult.value.score = Null

\* The service returned a numeric index (a number, or a string holding one) whose
\* whole part lies outside 1..ImageCount
ReturnedIndexOutOfRange ==
    /\ ObjectReply
    /\ IsValidNumber(ServiceField("hero_image_index"))
    /\ LET n == ValueOfNumber(ServiceField("hero_image_index"))
       IN n < 10 \/ n >= 10 * (ImageCount + 1)

\* The URL the service returned, trimmed, when it is a non-empty string
ReturnedUrl ==
    IF ObjectReply /\ ServiceField("hero_image_url").t = "str"
    THEN Str(Trim(ServiceField("hero_image_url").v))
    ELSE Null

\* C5 as claimed: a returned index out of range leaves hero_image_index absent, for
\* every URL returned alongside it.
C5_OutOfRangeIndexAbsent ==
    (GraderDone /\ ReturnedIndexOutOfRange) => gResult.value.hero_image_index = Null

\* C5 as amended: a returned index out of range is itself discarded; hero_image_index
\* is then absent unless the returned URL (trimmed, not under the attachment scheme)
\* is the URL of one of the offer's images, and then it is that image's position.
C5_OutOfRangeIndexDiscarded ==
    (GraderDone /\ ReturnedIndexOutOfRange) =>
        IF ReturnedUrl \in OwnUrls /\ ~StartsWith(ReturnedUrl.v, "attachment://")
        THEN /\ gResult.value.hero_image_index.t = "num"
             /\ gResult.value.hero_image_index.v \in {10 * i : i \in PositionsOf(ReturnedUrl)}
        ELSE gResult.value.hero_image_index = Null

\* C5 witness: index 9 with three images and no matching URL; the index is dropped
\* and the returned URL stands.
C5_Witness ==
    /\ GraderDone /\ ObjectReply
    /\ ImageCount = 3
    /\ ServiceField("hero_image_index") = Num(90)
    /\ ServiceField("hero_image_url") = Str(HttpsUrl("elsewhere"))
    /\ gResult.value.hero_image_index = Null
    /\ gResult.value.hero_image_url = Str(HttpsUrl("elsewhere"))

\* C6: no result has a hero_image_url under the attachment scheme.
C6_NoAttachmentUrl ==
    GraderDone =>
        \/ gResult.value.hero_image_url = Null
        \/ ~StartsWith(gResult.value.hero_image_url.v, "attachment://")

\* C10: a present hero_image_index is a position into the image list that was
\* numbered in the prompt and attached to the request (the first
\* min(8, len(image_details)) images).
C10_IndexWithinShownImages ==
    (GraderDone /\ HeroIndexPresent) =>
        /\ gResult.value.hero_image_index.v \in
              {10 * i : i \in 1..Len(PromptImageDetails(gOffer))}
        /\ gResult.value.hero_image_index.v \in {10 * i : i \in 1..Len(gRequest)}

-----------------------------------------------------------------------------
(* Properties of the batch run (checked under Spec).                       *)

Loaded == 1..Len(offers)
Started == phase \in {"running", "fatal", "done"} /\ wpc # <<>>
Range(seq) == {seq[i] : i \in 1..Len(seq)}
Count(seq, x) == Cardinality({i \in 1..Len(seq) : seq[i] = x})

\* The offer's status label is the word "curated" in some letter case
CuratedLabel(offer) ==
    /\ offer.status.t = "str"
    /\ Len(offer.status.v) = Len(CURATED)
    /\ \A i \in 1..Len(CURATED) :
          \/ offer.status.v[i] = CURATED[i]
          \/ offer.status.v[i] \in DOMAIN UpperOf /\ UpperOf[offer.status.v[i]] = CURATED[i]

Eligible == {i \in Loaded : ~CuratedLabel(offers[i])}
EverPopped == {popped[i][2] : i \in 1..Len(popped)}

AllWorkersSettled == Started /\ \A w \in DOMAIN wpc : wpc[w] \in {"finished", "rejected"}
OneResultPerEligibleOffer ==
    /\ Len(resultOffer) = Cardinality(Eligible)
    /\ \A i \in Eligible : Count(resultOffer, i) = 1

\* C2: with the credential in place, whatever the service calls do, the batch is
\* never aborted: every worker that ends has returned normally, and gradeOffers
\* completes with exactly one result for every eligible offer.
C2_FailureNeverAbortsBatch ==
    (apiKeyFound /\ dirReadable) =>
        /\ phase # "fatal"
        /\ \A w \in DOMAIN wpc : wpc[w] # "rejected"
        /\ (phase = "done" => OneResultPerEligibleOffer)

\* The results in the order of the offers they were graded from: what one worker
\* that takes the offers one after the other collects
ResultsInOfferOrder ==
    LET toGrade == OffersToGrade(offers)
    IN [k \in 1..Len(toGrade) |->
          results[CHOOSE i \in 1..Len(resultOffer) : resultOffer[i] = toGrade[k]]]

\* C7: the sorted output does not depend on the order in which the calls complete:
\* it is what the one-worker run, which collects the results in offer order,
\* returns for the same replies.
C7_SortedOutputIndependentOfTiming ==
    (phase = "done" /\ OneResultPerEligibleOffer) =>
        LET sequential == ResultsInOfferOrder
        IN /\ results = Permute(sequential, SortPermutation(sequential))
           /\ csv = <<CsvLines(Permute(sequential, SortPermutation(sequential)))>>

\* C8: a loaded offer whose status label is "curated" in any letter case is never
\* enqueued, never sent to the service and never in the results or the export;
\* every other loaded offer is enqueued.
C8_CuratedOffersExcluded ==
    /\ \A i \in Loaded :
          CuratedLabel(offers[i]) =>
              /\ i \notin Range(queue) \cup EverPopped
              /\ i \notin Range(calls)
              /\ i \notin Range(resultOffer)
    /\ Started => \A i \in Eligible : Count(queue, i) + Count([k \in 1..Len(popped) |-> popped[k][2]], i) = 1
    /\ \A f \in 1..Len(csv) :
          /\ Len(csv[f]) = 1 + Len(results)
          /\ \A k \in 1..Len(results) : csv[f][k + 1] = buildCsvRow(results[k])

\* C8 witness: a batch with a "curated" offer (lower case) and another offer has
\* been graded and exported.
C8_Witness ==
    /\ phase = "done"
    /\ \E i \in Loaded : offers[i].status = Str(<<"c", "u", "r", "a", "t", "e", "d">>)
    /\ \E i \in Loaded : ~CuratedLabel(offers[i])
    /\ Len(results) >= 1
    /\ Len(csv) = 1

\* C9: each eligible offer is popped by exactly one worker and sent to the service
\* at most once; no two workers grade the same offer; when all workers have
\* finished the results hold exactly one result per eligible offer.
C9_OneAttemptPerOffer ==
    (apiKeyFound /\ Started) =>
        /\ \A i \in Eligible : Count([k \in 1..Len(popped) |-> popped[k][2]], i) <= 1
        /\ \A i \in Eligible : Count(calls, i) <= 1
        /\ \A v, w \in DOMAIN wcur : (v # w /\ wcur[v] # 0) => wcur[v] # wcur[w]
        /\ (queue = <<>> /\ AllWorkersSettled) =>
              /\ \A i \in Eligible : Count([k \in 1..Len(popped) |-> popped[k][2]], i) = 1
              /\ OneResultPerEligibleOffer

-----------------------------------------------------------------------------
(* Loading one record over the space of raw images fields.                  *)

\* What image_url_host may hold at the top level and in a nested list
PrimaryHosts == {Undef, Str(<<>>), Str(HttpsUrl("1")), Str(HttpsUrl("2"))}
NestedHosts == {Undef, Str(HttpsUrl("1")), Str(HttpsUrl("3"))}

NestedEntries == {Obj([image_url_host |-> host]) : host \in NestedHosts}

\* What the images key of a top-level entry may hold
NestedFields ==
    {Undef, Str(<<"none">>)}
    \cup {Arr(list) : list \in UNION {[1..n -> NestedEntries] : n \in 0..MaxNested}}

RawEntries ==
    {Null}
    \cup {Obj([image_url_host |-> host, images |-> nested]) :
            host \in PrimaryHosts, nested \in NestedFields}

RawImagesFields ==
    {Undef, Str(<<"none">>)}
    \cup {Arr(list) : list \in UNION {[1..n -> RawEntries] : n \in 0..MaxRawEntries}}

InitLoad ==
    /\ dirReadable = TRUE
    /\ apiKeyFound = TRUE
    /\ files \in {<<[parses |-> TRUE,
                     payload |-> Obj([activity |->
                        RawActivity(Num(70), Undef, Undef, Undef, images)])]>> :
                  images \in RawImagesFields}
    /\ concurrency = Num(10)
    /\ phase = "start"
    /\ offers = <<>>
    /\ queue = <<>>
    /\ results = <<>>
    /\ resultOffer = <<>>
    /\ wpc = <<>>
    /\ wcur = <<>>
    /\ popped = <<>>
    /\ calls = <<>>
    /\ csv = <<>>
    /\ exitCode = 0
    /\ stalled = 0
    /\ GraderIdle

NextLoad == LoadOffers

SpecLoad == InitLoad /\ [][NextLoad]_vars

-----------------------------------------------------------------------------
(* Properties of the structured record (checked under SpecLoad).           *)

\* The raw images field of the one file of the directory
RawImagesOfFile == files[1].payload.v.activity.v.images

\* The usable host URL of a raw entry, as a sequence of zero or one URL
UsableHost(entry) ==
    IF /\ entry.t = "obj"
       /\ "image_url_host" \in DOMAIN entry.v
       /\ entry.v.image_url_host.t = "str"
       /\ entry.v.image_url_host.v # <<>>
    THEN <<entry.v.image_url_host>>
    ELSE <<>>

RECURSIVE HostsOf(_)
HostsOf(entries) ==
    IF entries = <<>> THEN <<>> ELSE UsableHost(Head(entries)) \o HostsOf(Tail(entries))

RECURSIVE Traversal(_)
\* The URLs of a raw images list in primary-then-nested order
Traversal(entries) ==
    IF entries = <<>> THEN <<>>
    ELSE LET entry == Head(entries)
             nested == IF entry.t = "obj" /\ "images" \in DOMAIN entry.v
                          /\ entry.v.images.t = "arr"
                       THEN HostsOf(entry.v.images.v) ELSE <<>>
         IN UsableHost(entry) \o nested \o Traversal(Tail(entries))

\* The elements of a sequence, each at the place of its first occurrence
FirstOccurrences(seq) ==
    LET first == SelectSeq([i \in 1..Len(seq) |-> i],
                           LAMBDA i : \A j \in 1..(i - 1) : seq[j] # seq[i])
    IN [k \in 1..Len(first) |-> seq[first[k]]]

\* C11: images and image_details have the same length and order, images[i] is
\* image_details[i].url, no URL occurs twice, none is empty or missing, and the URLs
\* are those of the primary-then-nested traversal, each at its first occurrence.
C11_ImagesDeduplicatedInOrder ==
    (phase = "loaded" /\ Len(offers) = 1) =>
        LET offer == offers[1]
            n == Len(offer.image_details)
            raw == RawImagesOfFile
        IN /\ Len(offer.images) = n
           /\ \A i \in 1..n : offer.images[i] = offer.image_details[i].url
           /\ \A i, j \in 1..n : i # j => offer.images[i] # offer.images[j]
           /\ \A i \in 1..n : offer.images[i].t = "str" /\ offer.images[i].v # <<>>
           /\ offer.images = FirstOccurrences(IF raw.t = "arr" THEN Traversal(raw.v) ELSE <<>>)

\* C11 witness: a URL met as a nested image and again as a later primary image is
\* kept once, at its nested position.
C11_Witness ==
    /\ phase = "loaded" /\ Len(offers) = 1
    /\ RawImagesOfFile.t = "arr"
    /\ Traversal(RawImagesOfFile.v) = <<Str(HttpsUrl("2")), Str(HttpsUrl("1")), Str(HttpsUrl("1"))>>
    /\ offers[1].images = <<Str(HttpsUrl("2")), Str(HttpsUrl("1"))>>
    /\ offers[1].image_details[2].source = "nested"

-----------------------------------------------------------------------------
(* Properties of the whole run (checked under Spec).                       *)

RunEnded == phase \in {"returned", "done", "fatal"}

\* C12: a run without a fatal startup failure (credential present, directory
\* readable) writes the export exactly once, the header row followed by one row per
\* graded offer, and exits zero however many offers failed to grade, also when no
\* offer is eligible.
C12_ExportWrittenOnce ==
    (apiKeyFound /\ dirReadable) =>
        /\ Len(csv) <= 1
        /\ RunEnded =>
              /\ Len(csv) = 1
              /\ csv[1][1] = JoinWith(CSV_COLUMNS, <<",">>)
              /\ Len(csv[1]) = 1 + Cardinality(Eligible)
              /\ exitCode = 0

-----------------------------------------------------------------------------
(* The URL-only reply (checked under SpecGrader).                          *)

\* The service returned no index and a URL that is a non-blank string
UrlOnlyReply ==
    /\ ObjectReply
    /\ IsNullish(ServiceField("hero_image_index"))
    /\ ServiceField("hero_image_url").t = "str"
    /\ Trim(ServiceField("hero_image_url").v) # <<>>

\* C13: with no index returned, a URL under the attachment scheme leaves both
\* fields absent; otherwise a URL that (trimmed) is the URL of one of the offer's
\* images gives that image's 1-based position and the trimmed URL, and a URL that
\* matches no image gives an absent index and the trimmed URL.
C13_IndexFromUrlOnly ==
    (GraderDone /\ UrlOnlyReply) =>
        IF StartsWith(ReturnedUrl.v, "attachment://")
        THEN /\ gResult.value.hero_image_index = Null
             /\ gResult.value.hero_image_url = Null
        ELSE IF ReturnedUrl \in OwnUrls
        THEN /\ gResult.value.hero_image_index.t = "num"
             /\ gResult.value.hero_image_index.v \in {10 * i : i \in PositionsOf(ReturnedUrl)}
             /\ gResult.value.hero_image_url = ReturnedUrl
        ELSE /\ gResult.value.hero_image_index = Null
             /\ gResult.value.hero_image_url = ReturnedUrl

\* C13 witness: only the URL of image 2 came back, padded with blanks; the result
\* carries index 2 and that URL.
C13_Witness ==
    /\ GraderDone /\ UrlOnlyReply
    /\ ServiceField("hero_image_url") = Str(<<" ">> \o HttpsUrl("2") \o <<" ">>)
    /\ gResult.value.hero_image_index = Num(20)
    /\ gResult.value.hero_image_url = Str(HttpsUrl("2"))

-----------------------------------------------------------------------------
(* Bounded concurrency (checked under Spec).                               *)

\* W = max(1, truncated configured concurrency); 1 for 0, negatives and NaN
WorkerCount ==
    IF concurrency.t = "num" /\ concurrency.v >= 10 THEN concurrency.v \div 10 ELSE 1

\* The offers worker w has shifted from the queue and not pushed a result for
Unanswered(w) ==
    {k \in 1..Len(popped) : popped[k][1] = w /\ popped[k][2] \notin Range(resultOffer)}

\* The service calls of worker w that have not settled: a worker that rejected had
\* its last call settle without a result
InFlight(w) == Cardinality(Unanswered(w)) - (IF wpc[w] = "rejected" THEN 1 ELSE 0)

CallsInFlight == Cardinality({w \in DOMAIN wpc : InFlight(w) >= 1})

BoundedInFlight ==
    (apiKeyFound /\ Started) =>
        /\ \A w \in DOMAIN wpc : InFlight(w) \in 0..1
        /\ CallsInFlight <= WorkerCount
        /\ Len(calls) - Len(resultOffer) <= WorkerCount

\* A worker that shifts a further offer does so in the step that pushed the result
\* of its previous call
NextOfferAfterPush ==
    (Started /\ Len(popped') > Len(popped)) =>
        LET w == popped'[Len(popped')][1]
        IN /\ wcur[w] # 0
           /\ Len(resultOffer') = Len(resultOffer) + 1
           /\ resultOffer'[Len(resultOffer')] = wcur[w]
           /\ wcur'[w] = popped'[Len(popped')][2]

\* C14: at every point the calls in flight number at most W = max(1, truncated
\* configured concurrency), W being 1 for 0, a negative value or NaN; each worker
\* has at most one call in flight and starts its next offer only once its previous
\* call has returned and its result is appended.
C14_BoundedConcurrency == [](BoundedInFlight) /\ [][NextOfferAfterPush]_vars

\* C14 witness: with a configured concurrency that is not a number the single
\* worker has pushed its first result and has its second call in flight.
C14_Witness ==
    /\ apiKeyFound /\ phase = "running"
    /\ concurrency = NaN
    /\ Len(wpc) = 1
    /\ Len(results) = 1
    /\ Len(calls) = 2
    /\ CallsInFlight = 1

-----------------------------------------------------------------------------
(* A run in which one service call never settles.                          *)

InitStall ==
    /\ RunInputs
    /\ stalled \in 1..MaxFiles

\* Every continuation that is ready runs, and every call but the stalled one settles
Fairness ==
    /\ WF_vars(LoadOffers)
    /\ WF_vars(StartGrading)
    /\ \A w \in 1..(MaxConcurrency + 1) : WF_vars(ServiceReturns(w))
    /\ WF_vars(FinishBatch)

SpecStall == InitStall /\ [][Next]_vars /\ Fairness

\* The stalled call is in flight and every other call has settled
OnlyStalledCallLeft ==
    /\ Started
    /\ \E w \in DOMAIN wpc : wpc[w] = "awaiting" /\ wcur[w] = stalled
    /\ \A w \in DOMAIN wpc : wpc[w] = "awaiting" => wcur[w] = stalled

\* C15: with at least two workers, one call stalled for ever and every other call
\* returned, every other eligible offer has been pulled from the queue and has its
\* result in the result collection.
C15_StallCostsOneSlot ==
    (apiKeyFound /\ Len(wpc) >= 2 /\ OnlyStalledCallLeft) =>
        \A i \in Eligible \ {stalled} :
            /\ i \in EverPopped
            /\ Count(resultOffer, i) = 1

====
